---- MODULE Spec2Model ----
(***************************************************************************)
(* Model of the sr25519 bindings (src/src/lib.rs): the nine exposed        *)
(* operations, the manual multi-party signer inner_raw_sign, and the       *)
(* schnorrkel / curve25519-dalek calls they make.                          *)
(*                                                                         *)
(* Scaling.  A 32-byte string is a number of PUBLIC_KEY_LENGTH bits.  The  *)
(* Ristretto group of prime order L is the additive group of integers      *)
(* modulo the small prime L; a point is written as the residue it has in   *)
(* that group.  A 64-byte value (secret key, signature) is the pair of its *)
(* two 32-byte halves.                                                     *)
(*    - a point encoding is canonical when it is even and below 2*L        *)
(*      (Ristretto rejects "negative" and out-of-range field elements);    *)
(*    - a scalar encoding is canonical when it is below L;                 *)
(*    - the top bit of a signature's scalar half is schnorrkel's marker    *)
(*      bit (byte 63, bit 7).                                              *)
(* A merlin transcript is the sequence of the labelled items appended to   *)
(* it; a challenge is a sponge over that sequence.                         *)
(***************************************************************************)
EXTENDS Integers, Sequences, FiniteSets, TLC

VARIABLES
    op,         \* harness: the exposed operation that is invoked
    args,       \* harness: its arguments, or the inputs of a scenario
    pc,         \* harness: position of the caller
    result,     \* value returned by the latest call
    first,      \* value returned by the call before it
    env         \* scenario: values the caller has computed so far

vars == <<op, args, pc, result, first, env>>

\* ---------------------------------------------------------------- bounds
MsgBits == 1        \* messages and derivation ids are MsgBits bits long
MaxNonce == 1       \* nonce halves of secret keys range over 0..MaxNonce
MaxChain == 1       \* chain codes range over 0..MaxChain
MaxSeed == 3        \* seeds / mini secret keys range over 0..MaxSeed

\* ------------------------------------------------------------- constants
L == 3                      \* order of the group (curve25519_dalek Scalar modulus)
PUBLIC_KEY_LENGTH == 3      \* width of a 32-byte string, in bits of the model
SIGNING_CTX == 7            \* b"substrate"

None == [none |-> TRUE]

Pow2(n) == 2 ^ n
Bytes32 == 0 .. (Pow2(PUBLIC_KEY_LENGTH) - 1)
MarkerBit == Pow2(PUBLIC_KEY_LENGTH - 1)
NonceBytes == 0 .. MaxNonce
ChainCodes == 0 .. MaxChain
Seeds == 0 .. MaxSeed
Messages == 0 .. (Pow2(MsgBits) - 1)
Scalars == 0 .. (L - 1)
SecretKeyBytes == Bytes32 \X NonceBytes
SigBytes == Bytes32 \X Bytes32

\* ------------------------------------------------------------ PyResult
Ok(v) == [ok |-> TRUE, val |-> v]
Err(e) == [ok |-> FALSE, err |-> e]
ValueError(msg, cause) == [exc |-> "ValueError", msg |-> msg, cause |-> cause]
IndexError(msg) == [exc |-> "IndexError", msg |-> msg, cause |-> "len"]

\* ------------------------------------------------- curve25519 / ristretto
ScalarAdd(a, b) == (a + b) % L
ScalarMul(a, b) == (a * b) % L
from_bytes_mod_order(b) == b % L
PointAdd(p, q) == (p + q) % L
PointSub(p, q) == (p + L - q) % L
PointMul(s, p) == (s * p) % L
MulBase(s) == (s * 2) % L
compress(p) == 2 * p
decompress(b) == IF b % 2 = 0 /\ b \div 2 < L THEN Ok(b \div 2) ELSE Err("PointDecompressionError")

\* ------------------------------------------------------ schnorrkel: keys
SecretKey_from_bytes(sk) == IF sk[1] < L THEN Ok([key |-> sk[1], nonce |-> sk[2]]) ELSE Err("ScalarFormatError")
SecretKey_to_bytes(s) == <<s.key, s.nonce>>
PublicKey_from_bytes(b) == decompress(b)
PublicKey_to_bytes(p) == compress(p)
to_public(s) == MulBase(s.key)

\* ------------------------------------------------- schnorrkel: signatures
\* Signature::from_bytes_not_distinguished_from_ed25519: the marker bit is
\* masked off without being required.
Signature_from_bytes_not_distinguished(sig) ==
    IF sig[2] % MarkerBit < L THEN Ok([R |-> sig[1], s |-> sig[2] % MarkerBit])
    ELSE Err("ScalarFormatError")

Signature_from_bytes(sig) ==
    IF sig[2] < MarkerBit THEN Err("NotMarkedSchnorrkel")
    ELSE IF sig[2] - MarkerBit < L THEN Ok([R |-> sig[1], s |-> sig[2] - MarkerBit])
    ELSE Err("ScalarFormatError")
Signature_to_bytes(sig) == <<sig.R, sig.s + MarkerBit>>

\* ------------------------------------------------------ merlin transcript
LabelCode(l) ==
    CASE l = "SigningContext" -> 1
      [] l = "" -> 2
      [] l = "sign-bytes" -> 3
      [] l = "proto-name" -> 4
      [] l = "Schnorr-sig" -> 5
      [] l = "sign:pk" -> 6
      [] l = "sign:R" -> 7
      [] l = "sign:c" -> 8
      [] l = "SchnorrRistrettoHDKD" -> 9
      [] l = "chain-code" -> 10
      [] l = "public-key" -> 11
      [] l = "HDKD-scalar" -> 12
      [] l = "HDKD-chaincode" -> 13
      [] l = "HDKD-hard" -> 14
      [] l = "secret-key" -> 15
      [] l = "SHA-512" -> 16
      [] OTHER -> 17
Item(label, data) == [label |-> label, data |-> data]
Transcript_new(label) == <<Item("dom-sep", LabelCode(label))>>
append_message(t, label, data) == Append(t, Item(label, data))
RECURSIVE Sponge(_)
Sponge(t) ==
    IF t = <<>> THEN 1
    ELSE LET last == t[Len(t)]
         IN (Sponge(SubSeq(t, 1, Len(t) - 1)) * 37 + LabelCode(last.label) * 11 + last.data * 5 + 1) % 211
challenge_bytes(t, label) == Sponge(append_message(t, label, 0))
challenge_scalar(t, label) == from_bytes_mod_order(challenge_bytes(t, label))
proto_name(t, label) == append_message(t, "proto-name", LabelCode(label))
commit_point(t, label, compressed) == append_message(t, label, compressed)
signing_context_bytes(ctx, message) ==
    append_message(append_message(Transcript_new("SigningContext"), "", ctx), "sign-bytes", message)

\* ------------------------------------------- schnorrkel: sign and verify
\* SecretKey::sign; r is the witness scalar drawn from the transcript rng.
SecretKey_sign(secret, t, public, r) ==
    LET t1 == proto_name(t, "Schnorr-sig")
        t2 == commit_point(t1, "sign:pk", compress(public))
        R == compress(MulBase(r))
        t3 == commit_point(t2, "sign:R", R)
        k == challenge_scalar(t3, "sign:c")
    IN [R |-> R, s |-> ScalarAdd(ScalarMul(k, secret.key), r)]

\* PublicKey::verify: recompute R from s and the challenge, compare encodings.
PublicKey_verify(public, t, sig) ==
    LET t1 == proto_name(t, "Schnorr-sig")
        t2 == commit_point(t1, "sign:pk", compress(public))
        t3 == commit_point(t2, "sign:R", sig.R)
        k == challenge_scalar(t3, "sign:c")
    IN compress(PointSub(MulBase(sig.s), PointMul(k, public))) = sig.R

verify_simple(public, ctx, message, sig) == PublicKey_verify(public, signing_context_bytes(ctx, message), sig)

\* ---------------------------------------- schnorrkel: expansion, derivation
\* MiniSecretKey::expand_to_keypair(ExpansionMode::Ed25519): the clamped half
\* of the digest is a non-zero canonical scalar, the other half the nonce.
expand_to_keypair(mini) ==
    LET h == Sponge(<<Item("SHA-512", mini)>>)
        secret == [key |-> 1 + (h % (L - 1)), nonce |-> (h \div L) % (MaxNonce + 1)]
    IN [secret |-> secret, public |-> to_public(secret)]

derive_scalar_and_chaincode(public, t, cc) ==
    LET t1 == append_message(t, "chain-code", cc)
        t2 == commit_point(t1, "public-key", compress(public))
        t3 == append_message(t2, "HDKD-scalar", 0)
    IN <<challenge_scalar(t2, "HDKD-scalar"), challenge_bytes(t3, "HDKD-chaincode") % (MaxChain + 1)>>

HDKD_transcript(i) == append_message(Transcript_new("SchnorrRistrettoHDKD"), "sign-bytes", i)

PublicKey_derived_key_simple(public, cc, i) ==
    LET d == derive_scalar_and_chaincode(public, HDKD_transcript(i), cc)
    IN <<PointAdd(public, MulBase(d[1])), d[2]>>

\* soft derivation that keeps the parent's nonce instead of drawing one.
Keypair_derived_key_simple_parent_nonce(keypair, cc, i, rng) ==
    LET d == derive_scalar_and_chaincode(keypair.public, HDKD_transcript(i), cc)
        secret == [key |-> ScalarAdd(keypair.secret.key, d[1]), nonce |-> keypair.secret.nonce]
    IN <<[secret |-> secret, public |-> to_public(secret)], d[2]>>

\* Keypair::derived_key_simple; rng is the nonce drawn by witness_bytes.
Keypair_derived_key_simple(keypair, cc, i, rng) ==
    LET d == derive_scalar_and_chaincode(keypair.public, HDKD_transcript(i), cc)
        secret == [key |-> ScalarAdd(keypair.secret.key, d[1]), nonce |-> rng]
    IN <<[secret |-> secret, public |-> to_public(secret)], d[2]>>

hard_derive_mini_secret_key(secret, cc, i) ==
    LET t1 == append_message(HDKD_transcript(i), "chain-code", cc)
        t2 == append_message(t1, "secret-key", secret.key)
        t3 == append_message(t2, "HDKD-hard", 0)
    IN <<challenge_bytes(t2, "HDKD-hard") % (MaxSeed + 1), challenge_bytes(t3, "HDKD-chaincode") % (MaxChain + 1)>>

\* ------------------------------------------------------ lib.rs: structs
\* Rust tuple structs are records f0, f1, f2; Python tuples are sequences.
Keypair(public, private) == [f0 |-> public, f1 |-> private]
ExtendedPubKey(cc, public) == [f0 |-> cc, f1 |-> public]
ExtendedKeypair(cc, public, private) == [f0 |-> cc, f1 |-> public, f2 |-> private]

Keypair_into_py(k) == <<k.f0, k.f1>>
Keypair_extract(obj) ==
    IF Len(obj) < 2 THEN Err(IndexError("Expected tuple of size 2")) ELSE Ok(Keypair(obj[1], obj[2]))
ExtendedPubKey_into_py(e) == <<e.f0, e.f1>>
ExtendedPubKey_extract(obj) ==
    IF Len(obj) < 2 THEN Err(IndexError("Expected tuple of size 2")) ELSE Ok(ExtendedPubKey(obj[1], obj[2]))
ExtendedKeypair_into_py(e) == <<e.f0, e.f1, e.f2>>
ExtendedKeypair_extract(obj) ==
    IF Len(obj) < 3 THEN Err(IndexError("Expected tuple of size 3")) ELSE Ok(ExtendedKeypair(obj[1], obj[2], obj[3]))

\* r.and_then(F), r.map(F)
AndThen(r, F(_)) == IF r.ok THEN F(r.val) ELSE r
Map(r, F(_)) == IF r.ok THEN Ok(F(r.val)) ELSE r

\* --------------------------------------------------- lib.rs: operations
\* sign under another signing context than verify's.
sign_other_context(keypair, message, r) ==
    LET secret == SecretKey_from_bytes(keypair.f1)
        public == PublicKey_from_bytes(keypair.f0)
    IN IF ~secret.ok THEN Err(ValueError("Invalid secret key", secret.err))
       ELSE IF ~public.ok THEN Err(ValueError("Invalid public key", public.err))
       ELSE Ok(Signature_to_bytes(
                SecretKey_sign(secret.val, signing_context_bytes(SIGNING_CTX + 1, message), public.val, r)))

sign(keypair, message, r) ==
    LET secret == SecretKey_from_bytes(keypair.f1)
        public == PublicKey_from_bytes(keypair.f0)
    IN IF ~secret.ok THEN Err(ValueError("Invalid secret key", secret.err))
       ELSE IF ~public.ok THEN Err(ValueError("Invalid public key", public.err))
       ELSE Ok(Signature_to_bytes(
                SecretKey_sign(secret.val, signing_context_bytes(SIGNING_CTX, message), public.val, r)))

\* verify with the library's error propagated (result? in place of is_ok()).
verify_propagating(signature, message, pubkey) ==
    LET sig == Signature_from_bytes(signature)
        pk == PublicKey_from_bytes(pubkey)
    IN IF ~sig.ok THEN Err(ValueError("Invalid signature", sig.err))
       ELSE IF ~pk.ok THEN Err(ValueError("Invalid public key", pk.err))
       ELSE IF verify_simple(pk.val, SIGNING_CTX, message, sig.val) THEN Ok(TRUE)
       ELSE Err(ValueError("Invalid signature", "EquationFalse"))

verify(signature, message, pubkey) ==
    LET sig == Signature_from_bytes(signature)
        pk == PublicKey_from_bytes(pubkey)
    IN IF ~sig.ok THEN Err(ValueError("Invalid signature", sig.err))
       ELSE IF ~pk.ok THEN Err(ValueError("Invalid public key", pk.err))
       ELSE Ok(verify_simple(pk.val, SIGNING_CTX, message, sig.val))

pair_from_seed(seed) ==
    LET kp == expand_to_keypair(seed)
    IN Ok(Keypair(PublicKey_to_bytes(kp.public), SecretKey_to_bytes(kp.secret)))

\* public_from_secret_key reading the scalar as SecretKey::from_ed25519_bytes
\* does, divided by the cofactor (8 = 2 mod L, its own inverse).
public_from_secret_key_ed25519(secret_key) ==
    LET sec_key == SecretKey_from_bytes(secret_key)
    IN IF ~sec_key.ok THEN Err(ValueError("Invalid secret key", sec_key.err))
       ELSE Ok(PublicKey_to_bytes(to_public([key |-> ScalarMul(sec_key.val.key, 2), nonce |-> sec_key.val.nonce])))

public_from_secret_key(secret_key) ==
    LET sec_key == SecretKey_from_bytes(secret_key)
    IN IF ~sec_key.ok THEN Err(ValueError("Invalid secret key", sec_key.err))
       ELSE Ok(PublicKey_to_bytes(to_public(sec_key.val)))

derive_pubkey(extended_pubkey, id) ==
    LET pubkey == PublicKey_from_bytes(extended_pubkey.f1)
    IN IF ~pubkey.ok THEN Err(ValueError("Invalid public key", pubkey.err))
       ELSE LET new == PublicKey_derived_key_simple(pubkey.val, extended_pubkey.f0, id)
            IN Ok(ExtendedPubKey(new[2], PublicKey_to_bytes(new[1])))

\* derive_keypair returning the parent's chain code with the child keys.
derive_keypair_parent_chain_code(extended_keypair, id, rng) ==
    LET pubkey == PublicKey_from_bytes(extended_keypair.f1)
        privkey == SecretKey_from_bytes(extended_keypair.f2)
    IN IF ~pubkey.ok THEN Err(ValueError("Invalid public key", pubkey.err))
       ELSE IF ~privkey.ok THEN Err(ValueError("Invalid secret key", privkey.err))
       ELSE LET new == Keypair_derived_key_simple(
                            [secret |-> privkey.val, public |-> pubkey.val], extended_keypair.f0, id, rng)
            IN Ok(ExtendedKeypair(extended_keypair.f0, PublicKey_to_bytes(new[1].public),
                                  SecretKey_to_bytes(new[1].secret)))

derive_keypair(extended_keypair, id, rng) ==
    LET pubkey == PublicKey_from_bytes(extended_keypair.f1)
        privkey == SecretKey_from_bytes(extended_keypair.f2)
    IN IF ~pubkey.ok THEN Err(ValueError("Invalid public key", pubkey.err))
       ELSE IF ~privkey.ok THEN Err(ValueError("Invalid secret key", privkey.err))
       ELSE LET new == Keypair_derived_key_simple(
                            [secret |-> privkey.val, public |-> pubkey.val], extended_keypair.f0, id, rng)
            IN Ok(ExtendedKeypair(new[2], PublicKey_to_bytes(new[1].public), SecretKey_to_bytes(new[1].secret)))

\* hard derivation that decodes the public key the way soft derivation does.
hard_derive_keypair_decoding_public(extended_keypair, id) ==
    LET pubkey == PublicKey_from_bytes(extended_keypair.f1)
        privkey == SecretKey_from_bytes(extended_keypair.f2)
    IN IF ~pubkey.ok THEN Err(ValueError("Invalid public key", pubkey.err))
       ELSE IF ~privkey.ok THEN Err(ValueError("Invalid secret key", privkey.err))
       ELSE LET new == hard_derive_mini_secret_key(privkey.val, extended_keypair.f0, id)
                new_keypair == expand_to_keypair(new[1])
            IN Ok(ExtendedKeypair(new[2], PublicKey_to_bytes(new_keypair.public),
                                  SecretKey_to_bytes(new_keypair.secret)))

hard_derive_keypair(extended_keypair, id) ==
    LET privkey == SecretKey_from_bytes(extended_keypair.f2)
    IN IF ~privkey.ok THEN Err(ValueError("Invalid secret key", privkey.err))
       ELSE LET new == hard_derive_mini_secret_key(privkey.val, extended_keypair.f0, id)
                new_keypair == expand_to_keypair(new[1])
            IN Ok(ExtendedKeypair(new[2], PublicKey_to_bytes(new_keypair.public),
                                  SecretKey_to_bytes(new_keypair.secret)))

\* sum_public_points subtracting the second point from the first.
sum_public_points_difference(pubkey1, pubkey2) ==
    LET pk1 == PublicKey_from_bytes(pubkey1)
        pk2 == PublicKey_from_bytes(pubkey2)
    IN IF ~pk1.ok THEN Err(ValueError("Invalid public key", pk1.err))
       ELSE IF ~pk2.ok THEN Err(ValueError("Invalid public key", pk2.err))
       ELSE Ok(compress(PointSub(pk1.val, pk2.val)))

sum_public_points(pubkey1, pubkey2) ==
    LET pk1 == PublicKey_from_bytes(pubkey1)
        pk2 == PublicKey_from_bytes(pubkey2)
    IN IF ~pk1.ok THEN Err(ValueError("Invalid public key", pk1.err))
       ELSE IF ~pk2.ok THEN Err(ValueError("Invalid public key", pk2.err))
       ELSE Ok(compress(PointAdd(pk1.val, pk2.val)))

concat_u8(a, b) == <<a, b>>

\* inner_raw_sign blinding the response with the nonce half of the secret key.
inner_raw_sign_blinded(secret, t, R_point, public, k) ==
    LET t1 == proto_name(t, "Schnorr-sig")
        t2 == commit_point(t1, "sign:pk", compress(public))
        R == compress(R_point)
        t3 == commit_point(t2, "sign:R", R)
        e == challenge_scalar(t3, "sign:c")
        n1 == from_bytes_mod_order(e)
        n2 == from_bytes_mod_order(SecretKey_to_bytes(secret)[1])
        n3 == from_bytes_mod_order(SecretKey_to_bytes(k)[1] + SecretKey_to_bytes(secret)[2])
        s == ScalarAdd(ScalarMul(n1, n2), n3)
    IN Ok(concat_u8(R, s))

inner_raw_sign(secret, t, R_point, public, k) ==
    LET t1 == proto_name(t, "Schnorr-sig")
        t2 == commit_point(t1, "sign:pk", compress(public))
        R == compress(R_point)
        t3 == commit_point(t2, "sign:R", R)
        e == challenge_scalar(t3, "sign:c")
        n1 == from_bytes_mod_order(e)
        n2 == from_bytes_mod_order(SecretKey_to_bytes(secret)[1])
        n3 == from_bytes_mod_order(SecretKey_to_bytes(k)[1])
        s == ScalarAdd(ScalarMul(n1, n2), n3)
    IN Ok(concat_u8(R, s))

\* multi_sign reporting a malformed k under the wrong message.
multi_sign_mislabelled(keypair, message, R_compressed, k) ==
    LET secret == SecretKey_from_bytes(keypair.f1)
        k_scalar == SecretKey_from_bytes(k)
        public == PublicKey_from_bytes(keypair.f0)
        R_point == PublicKey_from_bytes(R_compressed)
    IN IF ~secret.ok THEN Err(ValueError("Invalid secret key", secret.err))
       ELSE IF ~k_scalar.ok THEN Err(ValueError("Invalid public key", k_scalar.err))
       ELSE IF ~public.ok THEN Err(ValueError("Invalid public key", public.err))
       ELSE IF ~R_point.ok THEN Err(ValueError("Invalid public key", R_point.err))
       ELSE inner_raw_sign(secret.val, signing_context_bytes(SIGNING_CTX, message),
                           R_point.val, public.val, k_scalar.val)

\* multi_sign refusing a local nonce that is not the discrete log of R.
multi_sign_checking_nonce(keypair, message, R_compressed, k) ==
    LET secret == SecretKey_from_bytes(keypair.f1)
        k_scalar == SecretKey_from_bytes(k)
        public == PublicKey_from_bytes(keypair.f0)
        R_point == PublicKey_from_bytes(R_compressed)
    IN IF ~secret.ok THEN Err(ValueError("Invalid secret key", secret.err))
       ELSE IF ~k_scalar.ok THEN Err(ValueError("Invalid secret key", k_scalar.err))
       ELSE IF ~public.ok THEN Err(ValueError("Invalid public key", public.err))
       ELSE IF ~R_point.ok THEN Err(ValueError("Invalid public key", R_point.err))
       ELSE IF to_public(k_scalar.val) # R_point.val THEN Err(ValueError("Invalid secret key", "NonceMismatch"))
       ELSE inner_raw_sign(secret.val, signing_context_bytes(SIGNING_CTX, message),
                           R_point.val, public.val, k_scalar.val)

multi_sign(keypair, message, R_compressed, k) ==
    LET secret == SecretKey_from_bytes(keypair.f1)
        k_scalar == SecretKey_from_bytes(k)
        public == PublicKey_from_bytes(keypair.f0)
        R_point == PublicKey_from_bytes(R_compressed)
    IN IF ~secret.ok THEN Err(ValueError("Invalid secret key", secret.err))
       ELSE IF ~k_scalar.ok THEN Err(ValueError("Invalid secret key", k_scalar.err))
       ELSE IF ~public.ok THEN Err(ValueError("Invalid public key", public.err))
       ELSE IF ~R_point.ok THEN Err(ValueError("Invalid public key", R_point.err))
       ELSE inner_raw_sign(secret.val, signing_context_bytes(SIGNING_CTX, message),
                           R_point.val, public.val, k_scalar.val)

\* -------------------------------------- lib.rs: the exposed Python functions
\* #[pyfunction]: extract the arguments, call, convert the result.
py_pair_from_seed(seed) == Map(pair_from_seed(seed), Keypair_into_py)
py_sign(keypair, message, r) == AndThen(Keypair_extract(keypair), LAMBDA kp : sign(kp, message, r))
py_verify(signature, message, pubkey) == verify(signature, message, pubkey)
py_public_from_secret_key(secret_key) == public_from_secret_key(secret_key)
py_derive_pubkey(extended_pubkey, id) ==
    AndThen(ExtendedPubKey_extract(extended_pubkey),
            LAMBDA e : Map(derive_pubkey(e, id), ExtendedPubKey_into_py))
py_derive_keypair(extended_keypair, id, rng) ==
    AndThen(ExtendedKeypair_extract(extended_keypair),
            LAMBDA e : Map(derive_keypair(e, id, rng), ExtendedKeypair_into_py))
py_hard_derive_keypair(extended_keypair, id) ==
    AndThen(ExtendedKeypair_extract(extended_keypair),
            LAMBDA e : Map(hard_derive_keypair(e, id), ExtendedKeypair_into_py))
py_sum_public_points(pubkey1, pubkey2) == sum_public_points(pubkey1, pubkey2)
py_multi_sign(keypair, message, R, k) ==
    AndThen(Keypair_extract(keypair), LAMBDA kp : multi_sign(kp, message, R, k))

\* ------------------------------------------------ Spec: one operation, twice
\* The caller picks an operation and arguments of the right lengths, calls
\* it, and calls it again with the same arguments.
Ops == {"pair_from_seed", "sign", "verify", "public_from_secret_key", "derive_pubkey",
        "derive_keypair", "hard_derive_keypair", "sum_public_points", "multi_sign"}

Inputs(o) ==
    CASE o = "pair_from_seed" -> [seed : Seeds]
      [] o = "sign" -> [keypair : Bytes32 \X SecretKeyBytes, message : Messages]
      [] o = "verify" -> [signature : SigBytes, message : Messages, pubkey : Bytes32]
      [] o = "public_from_secret_key" -> [secret_key : SecretKeyBytes]
      [] o = "derive_pubkey" -> [extended_pubkey : ChainCodes \X Bytes32, id : Messages]
      [] o = "derive_keypair" -> [extended_keypair : ChainCodes \X Bytes32 \X SecretKeyBytes, id : Messages]
      [] o = "hard_derive_keypair" -> [extended_keypair : ChainCodes \X Bytes32 \X SecretKeyBytes, id : Messages]
      [] o = "sum_public_points" -> [pubkey1 : Bytes32, pubkey2 : Bytes32]
      [] o = "multi_sign" -> [keypair : Bytes32 \X SecretKeyBytes, message : Messages,
                              R : Bytes32, k : SecretKeyBytes]

Init ==
    /\ op \in Ops
    /\ args \in Inputs(op)
    /\ pc = "call"
    /\ result = None
    /\ first = None
    /\ env = None

\* What a call can return: one value per draw of the randomness the call makes
\* (sign: the witness scalar; derive_keypair: the witness nonce; the rest: none).
Outcomes(o, a) ==
    CASE o = "sign" -> {py_sign(a.keypair, a.message, r) : r \in Scalars}
      [] o = "derive_keypair" -> {py_derive_keypair(a.extended_keypair, a.id, rng) : rng \in NonceBytes}
      [] o = "hard_derive_keypair" -> {py_hard_derive_keypair(a.extended_keypair, a.id)}

Calling(o) == op = o /\ pc \in {"call", "again"}

Return(v) ==
    /\ result' = v
    /\ first' = result
    /\ pc' = IF pc = "call" THEN "again" ELSE "done"
    /\ UNCHANGED <<op, args, env>>

\* pair_from_seed with a nonce drawn afresh, as the derivations' notes describe.
CallPairFromSeedFreshNonce ==
    /\ Calling("pair_from_seed")
    /\ \E n \in NonceBytes :
          LET kp == py_pair_from_seed(args.seed).val
          IN Return(Ok(<<kp[1], <<kp[2][1], n>>>>))
CallPairFromSeed == Calling("pair_from_seed") /\ Return(py_pair_from_seed(args.seed))
CallSign == Calling("sign") /\ \E v \in Outcomes("sign", args) : Return(v)
CallVerify == Calling("verify") /\ Return(py_verify(args.signature, args.message, args.pubkey))
CallPublicFromSecretKey == Calling("public_from_secret_key") /\ Return(py_public_from_secret_key(args.secret_key))
CallDerivePubkey == Calling("derive_pubkey") /\ Return(py_derive_pubkey(args.extended_pubkey, args.id))
CallDeriveKeypair == Calling("derive_keypair") /\ \E v \in Outcomes("derive_keypair", args) : Return(v)
CallHardDeriveKeypair == Calling("hard_derive_keypair") /\ \E v \in Outcomes("hard_derive_keypair", args) : Return(v)
CallSumPublicPoints == Calling("sum_public_points") /\ Return(py_sum_public_points(args.pubkey1, args.pubkey2))
CallMultiSign == Calling("multi_sign") /\ Return(py_multi_sign(args.keypair, args.message, args.R, args.k))

Next ==
    \/ CallPairFromSeed
    \/ CallSign
    \/ CallVerify
    \/ CallPublicFromSecretKey
    \/ CallDerivePubkey
    \/ CallDeriveKeypair
    \/ CallHardDeriveKeypair
    \/ CallSumPublicPoints
    \/ CallMultiSign

Spec == Init /\ [][Next]_vars

\* ---------------------------------------- SpecSign: sign, tamper, verify
\* The caller signs a message, may flip one bit of the message or of the
\* 64-byte signature, and verifies against the keypair's public key.
FlipBit(b, i) == IF (b \div Pow2(i)) % 2 = 1 THEN b - Pow2(i) ELSE b + Pow2(i)

InitSign ==
    /\ op = "sign"
    /\ args \in Inputs("sign")
    /\ pc = "sign"
    /\ result = None
    /\ first = None
    /\ env = None

SvSign ==
    /\ pc = "sign"
    /\ \E v \in Outcomes("sign", args) :
          /\ result' = v
          /\ pc' = IF v.ok THEN "signed" ELSE "failed"
          /\ env' = [signature |-> v, message |-> args.message, tampered |-> "none"]
    /\ UNCHANGED <<op, args, first>>

SvFlipMessageBit ==
    /\ pc = "signed"
    /\ \E i \in 0 .. (MsgBits - 1) :
          env' = [env EXCEPT !.message = FlipBit(@, i), !.tampered = "message"]
    /\ pc' = "tampered"
    /\ UNCHANGED <<op, args, result, first>>

SvFlipSignatureBit ==
    /\ pc = "signed"
    /\ \E i \in 0 .. (2 * PUBLIC_KEY_LENGTH - 1) :
          LET sig == env.signature.val
          IN env' = IF i < PUBLIC_KEY_LENGTH
                    THEN [env EXCEPT !.signature = Ok(<<FlipBit(sig[1], i), sig[2]>>), !.tampered = "R"]
                    ELSE [env EXCEPT !.signature = Ok(<<sig[1], FlipBit(sig[2], i - PUBLIC_KEY_LENGTH)>>),
                                     !.tampered = "s"]
    /\ pc' = "tampered"
    /\ UNCHANGED <<op, args, result, first>>

SvVerify ==
    /\ pc \in {"signed", "tampered"}
    /\ result' = py_verify(env.signature.val, env.message, args.keypair[1])
    /\ first' = result
    /\ pc' = IF pc = "signed" THEN "verified" ELSE "checked"
    /\ UNCHANGED <<op, args, env>>

NextSign ==
    \/ SvSign
    \/ SvFlipMessageBit
    \/ SvFlipSignatureBit
    \/ SvVerify

SpecSign == InitSign /\ [][NextSign]_vars

\* ------------------------------------- SpecMulti: two-party multi-signature
\* Two parties with secret keys sk1, sk2 and local nonces k1, k2 publish their
\* points, aggregate them, sign with multi_sign, and the caller combines the
\* scalar halves into (R, s1 + s2 mod L), with or without the marker bit.
InitMulti ==
    /\ op = "multi_sign"
    /\ args \in [sk1 : Scalars \X NonceBytes, sk2 : Scalars \X NonceBytes,
                 k1 : Scalars \X NonceBytes, k2 : Scalars \X NonceBytes, message : Messages]
    /\ pc = "commit"
    /\ result = None
    /\ first = None
    /\ env = None

MsCommit ==
    /\ pc = "commit"
    /\ env' = [P1 |-> py_public_from_secret_key(args.sk1).val, P2 |-> py_public_from_secret_key(args.sk2).val,
               R1 |-> py_public_from_secret_key(args.k1).val, R2 |-> py_public_from_secret_key(args.k2).val]
    /\ pc' = "aggregate"
    /\ UNCHANGED <<op, args, result, first>>

MsAggregate ==
    /\ pc = "aggregate"
    /\ env' = [R |-> py_sum_public_points(env.R1, env.R2).val,
               Pjoint |-> py_sum_public_points(env.P1, env.P2).val,
               sig1 |-> None, sig2 |-> None]
    /\ pc' = "sign"
    /\ UNCHANGED <<op, args, result, first>>

MsSign1 ==
    /\ pc = "sign" /\ env.sig1 = None
    /\ result' = py_multi_sign(<<env.Pjoint, args.sk1>>, args.message, env.R, args.k1)
    /\ env' = [env EXCEPT !.sig1 = result']
    /\ pc' = IF env.sig2 = None THEN "sign" ELSE "combine"
    /\ UNCHANGED <<op, args, first>>

MsSign2 ==
    /\ pc = "sign" /\ env.sig2 = None
    /\ result' = py_multi_sign(<<env.Pjoint, args.sk2>>, args.message, env.R, args.k2)
    /\ env' = [env EXCEPT !.sig2 = result']
    /\ pc' = IF env.sig1 = None THEN "sign" ELSE "combine"
    /\ UNCHANGED <<op, args, first>>

MsCombine ==
    /\ pc = "combine"
    /\ \E marked \in BOOLEAN :
          LET s == (env.sig1.val[2] + env.sig2.val[2]) % L
          IN env' = [R |-> env.R, Pjoint |-> env.Pjoint, sig1 |-> env.sig1, sig2 |-> env.sig2,
                     joint |-> <<env.R, IF marked THEN s + MarkerBit ELSE s>>, marked |-> marked]
    /\ pc' = "verify"
    /\ UNCHANGED <<op, args, result, first>>

MsVerify ==
    /\ pc = "verify"
    /\ result' = py_verify(env.joint, args.message, env.Pjoint)
    /\ first' = result
    /\ pc' = "verified"
    /\ UNCHANGED <<op, args, env>>

NextMulti ==
    \/ MsCommit
    \/ MsAggregate
    \/ MsSign1
    \/ MsSign2
    \/ MsCombine
    \/ MsVerify

SpecMulti == InitMulti /\ [][NextMulti]_vars

\* --------------------------------- SpecDerive: soft derivation, both sides
\* The caller derives a child from the extended public key (chain code,
\* public), from the extended keypair tuple handed to derive_pubkey as it is,
\* and from the extended keypair with derive_keypair.
InitDerive ==
    /\ op = "derive_keypair"
    /\ args \in Inputs("derive_keypair")
    /\ pc = "pubkey"
    /\ result = None
    /\ first = None
    /\ env = None

SdDerivePubkey ==
    /\ pc = "pubkey"
    /\ result' = py_derive_pubkey(<<args.extended_keypair[1], args.extended_keypair[2]>>, args.id)
    /\ env' = [pub |-> result', pub3 |-> None]
    /\ pc' = "pubkey3"
    /\ UNCHANGED <<op, args, first>>

SdDerivePubkeyOfKeypair ==
    /\ pc = "pubkey3"
    /\ result' = py_derive_pubkey(args.extended_keypair, args.id)
    /\ env' = [env EXCEPT !.pub3 = result']
    /\ pc' = "keypair"
    /\ UNCHANGED <<op, args, first>>

SdDeriveKeypair ==
    /\ pc = "keypair"
    /\ \E v \in Outcomes("derive_keypair", args) : result' = v
    /\ first' = result
    /\ pc' = "done"
    /\ UNCHANGED <<op, args, env>>

NextDerive ==
    \/ SdDerivePubkey
    \/ SdDerivePubkeyOfKeypair
    \/ SdDeriveKeypair

SpecDerive == InitDerive /\ [][NextDerive]_vars

\* ------------------------- SpecPublic: a keypair made, its public recomputed
\* The caller obtains a keypair from pair_from_seed, derive_keypair or
\* hard_derive_keypair and hands its secret key to public_from_secret_key.
InitPublic ==
    /\ op \in {"pair_from_seed", "derive_keypair", "hard_derive_keypair"}
    /\ args \in Inputs(op)
    /\ pc = "make"
    /\ result = None
    /\ first = None
    /\ env = None

Made(v, public, secret) ==
    /\ result' = v
    /\ env' = IF v.ok THEN [public |-> public, secret |-> secret] ELSE None
    /\ pc' = IF v.ok THEN "made" ELSE "failed"
    /\ UNCHANGED <<op, args, first>>

PkPairFromSeed ==
    /\ pc = "make" /\ op = "pair_from_seed"
    /\ LET v == py_pair_from_seed(args.seed)
       IN Made(v, v.val[1], v.val[2])

PkDeriveKeypair ==
    /\ pc = "make" /\ op = "derive_keypair"
    /\ \E v \in Outcomes("derive_keypair", args) : Made(v, v.val[2], v.val[3])

PkHardDeriveKeypair ==
    /\ pc = "make" /\ op = "hard_derive_keypair"
    /\ LET v == py_hard_derive_keypair(args.extended_keypair, args.id)
       IN Made(v, v.val[2], v.val[3])

PkPublicFromSecretKey ==
    /\ pc = "made"
    /\ result' = py_public_from_secret_key(env.secret)
    /\ first' = result
    /\ pc' = "recomputed"
    /\ UNCHANGED <<op, args, env>>

NextPublic ==
    \/ PkPairFromSeed
    \/ PkDeriveKeypair
    \/ PkHardDeriveKeypair
    \/ PkPublicFromSecretKey

SpecPublic == InitPublic /\ [][NextPublic]_vars

\* ------------------------------ SpecSum: three points summed in two orders
\* The caller sums a and b in both orders, then a, b and c in both groupings,
\* each intermediate result being handed back to sum_public_points.
InitSum ==
    /\ op = "sum_public_points"
    /\ args \in [a : Bytes32, b : Bytes32, c : Bytes32]
    /\ pc = "ab"
    /\ result = None
    /\ first = None
    /\ env = [ab |-> None, ba |-> None, ab_c |-> None, bc |-> None, a_bc |-> None]

Summed(v, next) ==
    /\ result' = v
    /\ first' = result
    /\ pc' = next
    /\ UNCHANGED <<op, args>>

SmAB ==
    /\ pc = "ab"
    /\ LET v == py_sum_public_points(args.a, args.b)
       IN env' = [env EXCEPT !.ab = v] /\ Summed(v, "ba")

SmBA ==
    /\ pc = "ba"
    /\ LET v == py_sum_public_points(args.b, args.a)
       IN env' = [env EXCEPT !.ba = v] /\ Summed(v, IF env.ab.ok THEN "ab_c" ELSE "failed")

SmABthenC ==
    /\ pc = "ab_c"
    /\ LET v == py_sum_public_points(env.ab.val, args.c)
       IN env' = [env EXCEPT !.ab_c = v] /\ Summed(v, "bc")

SmBC ==
    /\ pc = "bc"
    /\ LET v == py_sum_public_points(args.b, args.c)
       IN env' = [env EXCEPT !.bc = v] /\ Summed(v, IF v.ok THEN "a_bc" ELSE "failed")

SmAthenBC ==
    /\ pc = "a_bc"
    /\ LET v == py_sum_public_points(args.a, env.bc.val)
       IN env' = [env EXCEPT !.a_bc = v] /\ Summed(v, "done")

NextSum ==
    \/ SmAB
    \/ SmBA
    \/ SmABthenC
    \/ SmBC
    \/ SmAthenBC

SpecSum == InitSum /\ [][NextSum]_vars

\* ------------------------------ SpecThreads: two invocations, interleaved
\* Two threads each call one exposed function. An invocation extracts its
\* arguments into its own frame (first[t]) and later returns a result computed
\* from that frame; the module keeps no static or global data, so the only
\* thing the threads have in common is the order in which they entered,
\* recorded in env for the properties.
Threads == {1, 2}

KeySample == {<<1, 0>>, <<L, 0>>}
PointSample == {compress(MulBase(1)), 2 * L + 1}

ThreadInputs(o) ==
    CASE o = "pair_from_seed" -> [seed : Seeds]
      [] o = "sign" -> [keypair : PointSample \X KeySample, message : {0}]
      [] o = "verify" -> [signature : {<<compress(0), MarkerBit + 1>>, <<compress(0), 1>>},
                          message : {0}, pubkey : PointSample]
      [] o = "public_from_secret_key" -> [secret_key : KeySample]
      [] o = "derive_pubkey" -> [extended_pubkey : {0} \X PointSample, id : {0}]
      [] o = "derive_keypair" -> [extended_keypair : {0} \X PointSample \X KeySample, id : {0}]
      [] o = "hard_derive_keypair" -> [extended_keypair : {0} \X PointSample \X KeySample, id : {0}]
      [] o = "sum_public_points" -> [pubkey1 : PointSample, pubkey2 : PointSample]
      [] o = "multi_sign" -> [keypair : PointSample \X KeySample, message : {0},
                              R : PointSample, k : KeySample]

\* What one call of o on a can return when it runs alone.
RunAlone(o, a) ==
    CASE o = "pair_from_seed" -> {py_pair_from_seed(a.seed)}
      [] o = "verify" -> {py_verify(a.signature, a.message, a.pubkey)}
      [] o = "public_from_secret_key" -> {py_public_from_secret_key(a.secret_key)}
      [] o = "derive_pubkey" -> {py_derive_pubkey(a.extended_pubkey, a.id)}
      [] o = "sum_public_points" -> {py_sum_public_points(a.pubkey1, a.pubkey2)}
      [] o = "multi_sign" -> {py_multi_sign(a.keypair, a.message, a.R, a.k)}
      [] OTHER -> Outcomes(o, a)

InitThreads ==
    /\ op \in [Threads -> Ops]
    /\ args \in [Threads -> UNION {ThreadInputs(o) : o \in Ops}]
    /\ \A t \in Threads : args[t] \in ThreadInputs(op[t])
    /\ pc = [t \in Threads |-> "called"]
    /\ result = [t \in Threads |-> None]
    /\ first = [t \in Threads |-> None]
    /\ env = [last |-> 0, overlapped |-> FALSE]

\* One static frame for all invocations, overwritten by whoever entered last.
InvocationShared(t) == [op |-> op[env.last], args |-> first[env.last]]

\* The function and the extracted arguments the body of invocation t works on.
Invocation(t) == [op |-> op[t], args |-> first[t]]

ThEnter(t) ==
    /\ pc[t] = "called"
    /\ pc' = [pc EXCEPT ![t] = "running"]
    /\ first' = [first EXCEPT ![t] = args[t]]
    /\ env' = [last |-> t, overlapped |-> env.overlapped \/ \E u \in Threads : pc[u] = "running"]
    /\ UNCHANGED <<op, args, result>>

ThReturn(t) ==
    /\ pc[t] = "running"
    /\ \E v \in RunAlone(Invocation(t).op, Invocation(t).args) : result' = [result EXCEPT ![t] = v]
    /\ pc' = [pc EXCEPT ![t] = "returned"]
    /\ UNCHANGED <<op, args, first, env>>

NextThreads ==
    \/ \E t \in Threads : ThEnter(t)
    \/ \E t \in Threads : ThReturn(t)

SpecThreads == InitThreads /\ [][NextThreads]_vars

\* ------------------------------- SpecSolo: multi_sign with a single party
\* One party with secret key sk and nonce k publishes P = sk*G and R = k*G,
\* signs with multi_sign and hands the 64 bytes it got to verify.
InitSolo ==
    /\ op = "multi_sign"
    /\ args \in [sk : Scalars \X NonceBytes, k : Scalars \X NonceBytes, message : Messages]
    /\ pc = "commit"
    /\ result = None
    /\ first = None
    /\ env = None

SoCommit ==
    /\ pc = "commit"
    /\ env' = [P |-> py_public_from_secret_key(args.sk).val, R |-> py_public_from_secret_key(args.k).val,
               sig |-> None]
    /\ pc' = "sign"
    /\ UNCHANGED <<op, args, result, first>>

SoMultiSign ==
    /\ pc = "sign"
    /\ result' = py_multi_sign(<<env.P, args.sk>>, args.message, env.R, args.k)
    /\ env' = [env EXCEPT !.sig = result']
    /\ pc' = IF result'.ok THEN "verify" ELSE "failed"
    /\ UNCHANGED <<op, args, first>>

SoVerify ==
    /\ pc = "verify"
    /\ result' = py_verify(env.sig.val, args.message, env.P)
    /\ first' = result
    /\ pc' = "verified"
    /\ UNCHANGED <<op, args, env>>

NextSolo ==
    \/ SoCommit
    \/ SoMultiSign
    \/ SoVerify

SpecSolo == InitSolo /\ [][NextSolo]_vars

\* ======================================================================
\* Properties
\* ======================================================================
ScalarMalformed(sk) == sk[1] >= L
PointMalformed(b) == b % 2 = 1 \/ b >= 2 * L
SigMalformed(sig) == sig[2] < MarkerBit \/ sig[2] >= MarkerBit + L
Returned(o) == op = o /\ pc \in {"again", "done"}

\* The Schnorr challenge for (public key bytes, R bytes, message).
Challenge(pk, R, message) ==
    challenge_scalar(
        <<Item("dom-sep", LabelCode("SigningContext")), Item("", SIGNING_CTX), Item("sign-bytes", message),
          Item("proto-name", LabelCode("Schnorr-sig")), Item("sign:pk", pk), Item("sign:R", R)>>,
        "sign:c")

\* (R, s) satisfies s*G = R + e*A for the public key A and the message.
SigCorrect(sig, message, pk) ==
    /\ ~PointMalformed(sig[1])
    /\ MulBase(sig[2] - MarkerBit) =
          PointAdd(sig[1] \div 2, PointMul(Challenge(pk, sig[1], message), pk \div 2))

\* C4: verify returns an error exactly when the signature bytes or the public-key
\* bytes fail to decode; otherwise it returns a boolean, and true only for a
\* signature that satisfies the verification equation (false for a wrong one).
C4_VerifyFalseNotError ==
    Returned("verify") =>
        LET bad == SigMalformed(args.signature) \/ PointMalformed(args.pubkey)
        IN /\ result.ok <=> ~bad
           /\ ~bad => result.val = SigCorrect(args.signature, args.message, args.pubkey)
           /\ bad => /\ result.err.exc = "ValueError"
                     /\ result.err.msg = IF SigMalformed(args.signature) THEN "Invalid signature"
                                         ELSE "Invalid public key"

\* C4 witness: a well-formed signature that is wrong for the key, answered false.
C4_Witness ==
    /\ Returned("verify")
    /\ ~SigMalformed(args.signature) /\ ~PointMalformed(args.pubkey) /\ ~PointMalformed(args.signature[1])
    /\ ~SigCorrect(args.signature, args.message, args.pubkey)
    /\ result = Ok(FALSE)

\* C6 (as stated): both derivation modes fail whenever the public-key or the
\* secret-key component of the extended keypair fails to decode.
C6_BothModesRejectBadKeys ==
    (Returned("derive_keypair") \/ Returned("hard_derive_keypair")) =>
        ((PointMalformed(args.extended_keypair[2]) \/ ScalarMalformed(args.extended_keypair[3]))
            => ~result.ok)

\* C6 (amended): derive_keypair fails exactly when the public-key or the secret-key
\* component fails to decode; hard_derive_keypair fails exactly when the secret-key
\* component fails to decode, whatever the public-key component is.
C6_DerivationDecodeErrors ==
    /\ Returned("derive_keypair") =>
          /\ result.ok <=> ~(PointMalformed(args.extended_keypair[2]) \/ ScalarMalformed(args.extended_keypair[3]))
          /\ ~result.ok => result.err.exc = "ValueError"
    /\ Returned("hard_derive_keypair") =>
          /\ result.ok <=> ~ScalarMalformed(args.extended_keypair[3])
          /\ ~result.ok => result.err = ValueError("Invalid secret key", "ScalarFormatError")

\* C6 witness: hard derivation returns a child for a public key that is no point.
C6_Witness ==
    /\ Returned("hard_derive_keypair")
    /\ PointMalformed(args.extended_keypair[2])
    /\ result.ok
    /\ ~PointMalformed(result.val[2])

\* The inputs an operation decodes, by kind.
SecretInputs ==
    CASE op = "sign" -> {args.keypair[2]}
      [] op = "public_from_secret_key" -> {args.secret_key}
      [] op = "derive_keypair" -> {args.extended_keypair[3]}
      [] op = "hard_derive_keypair" -> {args.extended_keypair[3]}
      [] op = "multi_sign" -> {args.keypair[2], args.k}
      [] OTHER -> {}
PointInputs ==
    CASE op = "sign" -> {args.keypair[1]}
      [] op = "verify" -> {args.pubkey}
      [] op = "derive_pubkey" -> {args.extended_pubkey[2]}
      [] op = "derive_keypair" -> {args.extended_keypair[2]}
      [] op = "sum_public_points" -> {args.pubkey1, args.pubkey2}
      [] op = "multi_sign" -> {args.keypair[1], args.R}
      [] OTHER -> {}
SigInputs == IF op = "verify" THEN {args.signature} ELSE {}
FullResults ==
    CASE op = "pair_from_seed" -> Bytes32 \X SecretKeyBytes
      [] op = "sign" -> SigBytes
      [] op = "verify" -> BOOLEAN
      [] op = "public_from_secret_key" -> Bytes32
      [] op = "derive_pubkey" -> ChainCodes \X Bytes32
      [] op = "derive_keypair" -> ChainCodes \X Bytes32 \X SecretKeyBytes
      [] op = "hard_derive_keypair" -> ChainCodes \X Bytes32 \X SecretKeyBytes
      [] op = "sum_public_points" -> Bytes32
      [] op = "multi_sign" -> SigBytes

\* C7 (as stated): an operation returns a full result or an error that identifies
\* the input that failed, so that in multi_sign a malformed R is told apart from a
\* malformed public key, and a malformed k from a malformed secret key.
C7_ErrorIdentifiesInput ==
    /\ pc \in {"again", "done"} /\ op \in Ops => (result.ok => result.val \in FullResults)
    /\ Returned("multi_sign") /\ ~ScalarMalformed(args.keypair[2]) /\ ~ScalarMalformed(args.k)
         /\ PointMalformed(args.R) /\ ~PointMalformed(args.keypair[1])
         => result # py_multi_sign(<<args.R, args.keypair[2]>>, args.message, args.keypair[1], args.k)
    /\ Returned("multi_sign") /\ ~ScalarMalformed(args.keypair[2]) /\ ScalarMalformed(args.k)
         => result # py_multi_sign(<<args.keypair[1], args.k>>, args.message, args.R, args.keypair[2])

\* C7 (amended): an operation returns a full result exactly when every input it
\* decodes is well formed, and otherwise a ValueError whose message names the kind
\* of an input that is malformed (secret key, public key, signature), not which of
\* two inputs of that kind it was.
C7_ErrorNamesKind ==
    pc \in {"again", "done"} /\ op \in Ops =>
        /\ result.ok <=> /\ \A x \in SecretInputs : ~ScalarMalformed(x)
                         /\ \A x \in PointInputs : ~PointMalformed(x)
                         /\ \A x \in SigInputs : ~SigMalformed(x)
        /\ result.ok => result.val \in FullResults
        /\ ~result.ok =>
              /\ result.err.exc = "ValueError"
              /\ \/ result.err.msg = "Invalid secret key" /\ \E x \in SecretInputs : ScalarMalformed(x)
                 \/ result.err.msg = "Invalid public key" /\ \E x \in PointInputs : PointMalformed(x)
                 \/ result.err.msg = "Invalid signature" /\ \E x \in SigInputs : SigMalformed(x)

\* C7 witness: multi_sign fails on a malformed R with the very error it gives
\* for a malformed public key.
C7_Witness ==
    /\ Returned("multi_sign")
    /\ ~ScalarMalformed(args.keypair[2]) /\ ~ScalarMalformed(args.k)
    /\ PointMalformed(args.R) /\ ~PointMalformed(args.keypair[1])
    /\ ~result.ok
    /\ result = py_multi_sign(<<args.R, args.keypair[2]>>, args.message, args.keypair[1], args.k)

\* A second call can return a secret key whose nonce half differs from the first's.
OtherNoncePossible == \E v \in Outcomes(op, args) : v.val[3][2] # result.val[3][2]

\* C8 (as stated): the nonce half of the secret key hard_derive_keypair returns is
\* drawn afresh, so a second call with the same input can return other nonce bytes.
C8_HardDeriveFreshNonce ==
    op = "hard_derive_keypair" /\ pc = "again" /\ result.ok => OtherNoncePossible

\* C9: two calls of derive_keypair with the same extended keypair and id return the
\* same chain code, public key and secret scalar; the nonce half is drawn afresh,
\* so the second call can return other nonce bytes.
C9_SoftDeriveScalarStable ==
    /\ op = "derive_keypair" /\ pc = "done" /\ result.ok =>
          /\ first.ok
          /\ first.val[1] = result.val[1]
          /\ first.val[2] = result.val[2]
          /\ first.val[3][1] = result.val[3][1]
    /\ op = "derive_keypair" /\ pc = "again" /\ result.ok => OtherNoncePossible

\* C9 witness: two derivations that differ, and only in the nonce half.
C9_Witness ==
    /\ op = "derive_keypair" /\ pc = "done" /\ result.ok /\ first.ok
    /\ first.val[3][2] # result.val[3][2]
    /\ first.val[3][1] = result.val[3][1]
    /\ first.val[2] = result.val[2]

\* C10: pair_from_seed never fails, returns (public, secret) in that order with the
\* public key the image of the secret scalar, and returns the same public key and
\* the same secret key (scalar and nonce) whenever it is called with the same seed.
C10_PairFromSeedDeterministic ==
    /\ Returned("pair_from_seed") =>
          /\ result.ok
          /\ Len(result.val) = 2
          /\ result.val[2] \in SecretKeyBytes
          /\ ~ScalarMalformed(result.val[2])
          /\ result.val[1] = compress(MulBase(result.val[2][1]))
    /\ op = "pair_from_seed" /\ pc = "done" => first = result

\* C10 witness: the second call has returned, with a usable keypair.
C10_Witness ==
    /\ op = "pair_from_seed" /\ pc = "done"
    /\ result.ok /\ first = result
    /\ public_from_secret_key(result.val[2]) = Ok(result.val[1])


\* The public key is a point, the secret scalar canonical, and the public key is
\* the image of the secret scalar (the Keypair invariant of the data model).
Consistent(public, secret) ==
    /\ ~PointMalformed(public)
    /\ ~ScalarMalformed(secret)
    /\ public = compress(MulBase(secret[1]))

\* C1: for every keypair and message, verify(sign(keypair, message), message,
\* keypair.public) returns true.
C1_SignVerifyRoundTrip ==
    pc = "verified" /\ Consistent(args.keypair[1], args.keypair[2]) => result = Ok(TRUE)

\* C1 witness: a signature by a non-zero scalar under a non-zero challenge verified.
C1_Witness ==
    /\ pc = "verified"
    /\ Consistent(args.keypair[1], args.keypair[2])
    /\ args.keypair[2][1] # 0
    /\ Challenge(args.keypair[1], env.signature.val[1], args.message) # 0
    /\ result = Ok(TRUE)

\* The keypair is accepted by sign although the public key is not the image of
\* the secret scalar; such a signature need not verify.
C1_InconsistentPairRejected ==
    /\ pc = "verified"
    /\ ~Consistent(args.keypair[1], args.keypair[2])
    /\ result = Ok(FALSE)

\* A case the value of the challenge alone decides, which a collision-resistant
\* transcript hash meets with negligible probability: the flipped message has
\* the challenge of the signed one, or the signature with R flipped happens to
\* satisfy the verification equation.
ChallengeCollision ==
    LET pk == args.keypair[1]
        sig == env.signature.val
    IN \/ /\ env.tampered = "message"
          /\ Challenge(pk, sig[1], env.message) = Challenge(pk, sig[1], args.message)
       \/ /\ env.tampered = "R"
          /\ SigCorrect(sig, env.message, pk)

Tampered == pc = "checked" /\ Consistent(args.keypair[1], args.keypair[2]) /\ ~ChallengeCollision

\* C5 (as stated): after a flip of any single bit of the message or of the
\* signature, verify returns false.
C5_TamperedReturnsFalse == Tampered => result = Ok(FALSE)

\* C5 (amended): after a flip of a single bit of the message or of R, verify
\* returns false when the secret scalar is not zero (with a zero scalar every
\* message verifies); after a flip of a single bit of the scalar half, verify
\* returns false when the bytes still decode, and the error "Invalid signature"
\* when they do not: the marker bit is cleared or the scalar is not canonical.
C5_TamperedNeverAccepted ==
    Tampered =>
        CASE env.tampered = "message" -> result = Ok(args.keypair[2][1] = 0)
          [] env.tampered = "R" -> result = Ok(FALSE)
          [] env.tampered = "s" ->
                IF env.signature.val[2] < MarkerBit
                THEN result = Err(ValueError("Invalid signature", "NotMarkedSchnorrkel"))
                ELSE IF env.signature.val[2] >= MarkerBit + L
                THEN result = Err(ValueError("Invalid signature", "ScalarFormatError"))
                ELSE result = Ok(FALSE)

\* C5 witness: the marker bit of a good signature flipped, and verify raised.
C5_Witness ==
    /\ Tampered
    /\ env.tampered = "s"
    /\ first.val[2] = env.signature.val[2] + MarkerBit
    /\ ~result.ok

\* C5 second witness: a message bit flipped, the challenge moved, verify false.
C5_WitnessMessage ==
    /\ Tampered
    /\ env.tampered = "message"
    /\ result = Ok(FALSE)

\* C5 third witness: an R bit flipped to another point, verify false.
C5_WitnessR ==
    /\ Tampered
    /\ env.tampered = "R"
    /\ ~PointMalformed(env.signature.val[1])
    /\ result = Ok(FALSE)

\* C2 (as stated): the joint signature (R, s1 + s2 mod L) of two parties verifies
\* under the sum of their public keys.
C2_JointSignatureVerifies ==
    pc = "verified" /\ env.joint = <<env.R, (env.sig1.val[2] + env.sig2.val[2]) % L>> => result = Ok(TRUE)

\* The joint signature verifies once the caller sets the marker bit of its
\* scalar half; unmarked, verify raises "Invalid signature".
C2_MarkedJointVerifies ==
    pc = "verified" =>
        result = IF env.marked THEN Ok(TRUE) ELSE Err(ValueError("Invalid signature", "NotMarkedSchnorrkel"))

C2_MarkedWitness ==
    /\ pc = "verified" /\ env.marked /\ result = Ok(TRUE)
    /\ args.sk1[1] # 0 /\ args.sk2[1] # 0 /\ args.k1[1] # args.k2[1]
    /\ Challenge(env.Pjoint, env.R, args.message) # 0

\* C3: derive_pubkey on (chain code, public) returns the chain code and public key
\* that derive_keypair returns on the extended keypair, and returns the same when
\* it is handed the extended keypair tuple itself.
C3_SoftDerivationConsistent ==
    /\ pc \in {"keypair", "done"} => env.pub3 = env.pub
    /\ pc = "done" /\ Consistent(args.extended_keypair[2], args.extended_keypair[3]) =>
          /\ env.pub.ok /\ result.ok
          /\ env.pub.val = <<result.val[1], result.val[2]>>

\* C3 witness: a child that differs from its parent, derived on both sides.
C3_Witness ==
    /\ pc = "done"
    /\ Consistent(args.extended_keypair[2], args.extended_keypair[3])
    /\ env.pub.ok /\ result.ok
    /\ env.pub.val = <<result.val[1], result.val[2]>>
    /\ env.pub.val[2] # args.extended_keypair[2]
    /\ env.pub.val[1] # args.extended_keypair[1]


\* C11: public_from_secret_key on the secret key of a keypair returned by
\* pair_from_seed, derive_keypair or hard_derive_keypair returns that keypair's
\* public key.
C11_PublicRecomputed ==
    pc = "recomputed" => result = Ok(env.public)

\* C11 witness: for each of the three sources a keypair with a non-zero scalar
\* whose public key was recomputed; shown here for a soft-derived child.
C11_Witness ==
    /\ pc = "recomputed"
    /\ op = "derive_keypair"
    /\ env.secret[1] # 0
    /\ env.public # args.extended_keypair[2]
    /\ result = Ok(env.public)

C11_WitnessSeed == pc = "recomputed" /\ op = "pair_from_seed" /\ result = Ok(env.public)

C11_WitnessHard == pc = "recomputed" /\ op = "hard_derive_keypair" /\ result = Ok(env.public)


ValidPoints == ~PointMalformed(args.a) /\ ~PointMalformed(args.b) /\ ~PointMalformed(args.c)

\* C12: on valid points sum_public_points is commutative and associative, and
\* every intermediate sum is accepted as an input of the next call.
C12_SumCommutativeAssociative ==
    /\ pc \in {"ab_c", "failed", "bc", "a_bc", "done"} /\ ~PointMalformed(args.a) /\ ~PointMalformed(args.b) =>
          env.ab.ok /\ env.ab = env.ba
    /\ pc \in {"bc", "a_bc", "done", "failed"} /\ ValidPoints => pc # "failed" /\ env.ab_c.ok
    /\ pc = "a_bc" /\ ValidPoints => env.bc.ok
    /\ pc = "done" /\ ValidPoints => env.a_bc.ok /\ env.a_bc = env.ab_c

\* C12 witness: three points other than the identity, summed in both groupings.
C12_Witness ==
    /\ pc = "done"
    /\ ValidPoints
    /\ args.a # compress(0) /\ args.b # compress(0) /\ args.c # compress(0)
    /\ args.a # args.b
    /\ env.ab = env.ba
    /\ env.a_bc.ok /\ env.a_bc = env.ab_c


\* A step is taken by one invocation, moves it forward once, and leaves the
\* frame, position and result of the other as they were.
OwnStateOnly ==
    \E t \in Threads :
        /\ <<pc[t], pc'[t]>> \in {<<"called", "running">>, <<"running", "returned">>}
        /\ \A u \in Threads \ {t} : pc'[u] = pc[u] /\ first'[u] = first[u] /\ result'[u] = result[u]

\* The enabling condition of the next step of invocation t, written out: to
\* enter it needs nothing, to return it needs a result for its own frame; the
\* position of the other invocation does not occur in it.
CanStep(t) ==
    /\ pc[t] = "called" => TRUE
    /\ pc[t] = "running" => RunAlone(Invocation(t).op, Invocation(t).args) # {}

C14_SoloMultiSignVerifies ==
    pc = "verified" => result = Ok(TRUE)

\* The transcript is the one sign and verify use: the bytes multi_sign returns
\* are those sign returns when its witness scalar is k, but for the marker bit,
\* which multi_sign leaves clear; verify rejects them as they are and accepts
\* them once the bit is set.
C14_SameTranscriptNoMarker ==
    pc = "verified" =>
        /\ \E r \in Scalars :
              /\ r = args.k[1]
              /\ py_sign(<<env.P, args.sk>>, args.message, r) = Ok(<<env.sig.val[1], env.sig.val[2] + MarkerBit>>)
        /\ env.sig.val[2] = ScalarAdd(ScalarMul(Challenge(env.P, env.R, args.message), args.sk[1]), args.k[1])
        /\ result = Err(ValueError("Invalid signature", "NotMarkedSchnorrkel"))
        /\ py_verify(<<env.sig.val[1], env.sig.val[2] + MarkerBit>>, args.message, env.P) = Ok(TRUE)

C14_ReachedVerify ==
    /\ pc = "verified"
    /\ args.sk[1] # 0 /\ args.k[1] # 0
    /\ Challenge(env.P, env.R, args.message) # 0


\* The four inputs of multi_sign decode: both scalars canonical, both points valid.
MultiSignWellFormed ==
    /\ ~ScalarMalformed(args.keypair[2]) /\ ~ScalarMalformed(args.k)
    /\ ~PointMalformed(args.keypair[1]) /\ ~PointMalformed(args.R)

\* The local nonce is not the discrete log of the supplied R.
NonceUnrelated == compress(MulBase(args.k[1])) # args.R

\* C15: on well-formed input multi_sign returns the supplied R bytes followed by
\* s = e * secret scalar + k mod L, whether or not k*G has anything to do with R;
\* with an unrelated nonce the signature returned does not verify.
C15_MultiSignLayout ==
    Returned("multi_sign") /\ MultiSignWellFormed =>
        LET e == Challenge(args.keypair[1], args.R, args.message)
            s == ScalarAdd(ScalarMul(e, args.keypair[2][1]), args.k[1])
        IN /\ result = Ok(<<args.R, s>>)
           /\ NonceUnrelated /\ Consistent(args.keypair[1], args.keypair[2]) =>
                 /\ py_verify(result.val, args.message, args.keypair[1]) # Ok(TRUE)
                 /\ py_verify(<<args.R, s + MarkerBit>>, args.message, args.keypair[1]) = Ok(FALSE)

\* C15 witness: a signature returned for a nonce unrelated to R, by a non-zero
\* scalar under a non-zero challenge.
C15_Witness ==
    /\ Returned("multi_sign") /\ MultiSignWellFormed
    /\ NonceUnrelated
    /\ Consistent(args.keypair[1], args.keypair[2])
    /\ args.keypair[2][1] # 0
    /\ Challenge(args.keypair[1], args.R, args.message) # 0
    /\ result.ok /\ result.val[1] = args.R

\* C16: multi_sign returns the same bytes when called again, and the bytes (or
\* the error) it returned are those of the call with any other nonce halves in
\* the keypair secret and in k.
C16_MultiSignScalarHalvesOnly ==
    /\ op = "multi_sign" /\ pc = "done" => first = result
    /\ Returned("multi_sign") =>
          \A n1, n2 \in NonceBytes :
              py_multi_sign(<<args.keypair[1], <<args.keypair[2][1], n1>>>>, args.message, args.R,
                            <<args.k[1], n2>>) = result

\* C16 witness: a signature returned twice for secrets with non-zero nonce halves.
C16_Witness ==
    /\ op = "multi_sign" /\ pc = "done"
    /\ args.keypair[2][2] # 0 /\ args.k[2] # 0
    /\ args.keypair[2][1] # 0 /\ args.k[1] # 0
    /\ result.ok /\ first = result

====
